---- MODULE Spec2Model ----
(***************************************************************************)
(* Presence registry, typing aggregator, call signalling router and chat   *)
(* relay of src/index.js, as a state machine: one action per socket.io     *)
(* handler (and per REST route / store completion of the chat relay).      *)
(* Every handler runs to completion on the single Node.js event loop, so   *)
(* a handler is one atomic action; the only suspension points are the      *)
(* awaits on the message store.                                            *)
(***************************************************************************)
EXTENDS Integers, Sequences, FiniteSets, TLC

\* ---- bounds of the model ----
MaxSockets == 2
MaxUsers == 2
MaxTime == 1
MaxMsgs == 2
MaxReactions == 2

\* ---- values ----
\* a userId that fails `if (!userId)` / `if (userId)`: undefined, null, ''
NoUser == 0
\* the result of Map.get on a missing key (undefined)
NoSocket == 0
\* lastSeen has no key for the user
NoTime == -1

Sockets == 1..MaxSockets
Users == 1..MaxUsers
UserIds == {NoUser} \cup Users
Roles == {"", "f"}
Payloads == [userId : UserIds, role : Roles]

VARIABLES
  conn,             \* socket id -> "new" | "open" | "closed"
  socketsByUser,    \* Map userId -> socket.id
  userBySocket,     \* Map socket.id -> userId
  typingUsers,      \* Set of userIds, in insertion order
  lastSeen,         \* userId -> timestamp
  now,              \* the clock read by new Date() and Date.now
  store,            \* the Message collection: the documents saved and not deleted
  pending,          \* sendMessage handlers suspended at `await message.save()`
  pendingDel,       \* DELETE requests suspended at `await Message.findByIdAndDelete(id)`
  errlog,           \* ids of the messages console.error reported as not saved
  nextId,           \* the next _id mongoose gives a new Message
  sentBy,           \* message _id -> the socket whose sendMessage handler built it
  messageReactions, \* messageId -> the emojis pushed for it, in order
  out,              \* what the handler that just ran emitted, in order
  mail,             \* the e-mails the handler that just ran sent
  last              \* the event that was just handled

vars == <<conn, socketsByUser, userBySocket, typingUsers, lastSeen, now,
          store, pending, pendingDel, errlog, nextId, sentBy, messageReactions,
          out, mail, last>>

\* the in-memory maps of the registry, presence, typing and reactions
regVars == <<socketsByUser, userBySocket, typingUsers, lastSeen, messageReactions>>
\* the chat relay: the store and the handlers waiting on it
chatVars == <<store, pending, pendingDel, errlog, nextId, sentBy>>

\* ---- helpers ----
Open == {s \in Sockets : conn[s] = "open"}

\* Map.size of socketsByUser
MapSize(m) == Cardinality({u \in DOMAIN m : m[u] # NoSocket})

\* socketsByUser.get(to); a falsy or unknown key misses
Lookup(to) == IF to \in Users THEN socketsByUser[to] ELSE NoSocket

\* one emit call: the event, the sockets it reaches, its payload
Emission(ev, rcpt, payload) == [ev |-> ev, rcpt |-> rcpt, payload |-> payload]

\* io.emit: every connected socket
IoEmit(ev, payload) == Emission(ev, Open, payload)

\* socket.broadcast.emit: every connected socket but the sender
SocketBroadcastEmit(s, ev, payload) == Emission(ev, Open \ {s}, payload)

\* io.to(id).emit: the room of that socket id, empty once the socket has left
IoToEmit(id, ev, payload) == Emission(ev, {id} \cap Open, payload)

\* the event being handled
Event(kind, s, a, b) == [kind |-> kind, sock |-> s, arg |-> a, arg2 |-> b]

\* Set.add / Set.delete keep insertion order (Array.from lists it)
SeqRange(q) == {q[i] : i \in 1..Len(q)}
SetAdd(q, u) == IF u \in SeqRange(q) THEN q ELSE Append(q, u)
SetDelete(q, u) == SelectSeq(q, LAMBDA x : x # u)

\* the count taken from the connected sockets instead of the bound userIDs
broadcastOnlineInfoBySockets(sbu, ls, rcpt) ==
  << Emission("updateOnlineUsers", rcpt, Cardinality(rcpt)),
     Emission("lastSeen", rcpt, ls) >>

\* broadcastOnlineInfo, reading the maps as the caller left them
broadcastOnlineInfo(sbu, ls, rcpt) ==
  << Emission("updateOnlineUsers", rcpt, MapSize(sbu)),
     Emission("lastSeen", rcpt, ls) >>

StatusText(role, what) == [who |-> IF role = "" THEN "A user" ELSE role, what |-> what]

Init ==
  /\ conn = [s \in Sockets |-> "new"]
  /\ socketsByUser = [u \in Users |-> NoSocket]
  /\ userBySocket = [s \in Sockets |-> NoUser]
  /\ typingUsers = <<>>
  /\ lastSeen = [u \in Users |-> NoTime]
  /\ now = 0
  /\ store = {}
  /\ pending = {}
  /\ pendingDel = {}
  /\ errlog = {}
  /\ nextId = 1
  /\ sentBy = [id \in 1..MaxMsgs |-> NoSocket]
  /\ messageReactions = [id \in 1..MaxMsgs |-> <<>>]
  /\ out = <<>>
  /\ mail = <<>>
  /\ last = Event("init", NoSocket, 0, 0)

\* io.on('connection'): a new socket with a fresh id
Connect(s) ==
  /\ conn[s] = "new"
  /\ \A t \in Sockets : t < s => conn[t] # "new"
  /\ conn' = [conn EXCEPT ![s] = "open"]
  /\ out' = <<>>
  /\ mail' = <<>>
  /\ last' = Event("connection", s, 0, 0)
  /\ UNCHANGED <<chatVars, messageReactions>>
  /\ UNCHANGED <<socketsByUser, userBySocket, typingUsers, lastSeen, now>>

\* time passes between two events
Tick ==
  /\ now < MaxTime
  /\ now' = now + 1
  /\ out' = <<>>
  /\ mail' = <<>>
  /\ last' = Event("tick", NoSocket, 0, 0)
  /\ UNCHANGED <<chatVars, messageReactions>>
  /\ UNCHANGED <<conn, socketsByUser, userBySocket, typingUsers, lastSeen>>

\* register that keeps an existing binding of the userId (first registration wins)
RegisterKeepFirst(s, u) ==
  /\ conn[s] = "open"
  /\ last' = Event("register", s, u, 0)
  /\ UNCHANGED <<chatVars, messageReactions>>
  /\ UNCHANGED <<conn, typingUsers, now>>
  /\ IF u = NoUser
       THEN /\ out' = <<>>
            /\ mail' = <<>>
            /\ UNCHANGED <<socketsByUser, userBySocket, lastSeen>>
       ELSE /\ socketsByUser' = IF socketsByUser[u] = NoSocket
                                  THEN [socketsByUser EXCEPT ![u] = s]
                                  ELSE socketsByUser
            /\ userBySocket' = [userBySocket EXCEPT ![s] = u]
            /\ lastSeen' = [lastSeen EXCEPT ![u] = now]
            /\ out' = broadcastOnlineInfo(socketsByUser', lastSeen', Open)
            /\ mail' = IF MapSize(socketsByUser') = 1 THEN <<"Server Active">> ELSE <<>>

\* register that broadcasts before it writes the maps (a stale snapshot)
RegisterBroadcastFirst(s, u) ==
  /\ conn[s] = "open"
  /\ last' = Event("register", s, u, 0)
  /\ UNCHANGED <<chatVars, messageReactions>>
  /\ UNCHANGED <<conn, typingUsers, now>>
  /\ IF u = NoUser
       THEN /\ out' = <<>>
            /\ mail' = <<>>
            /\ UNCHANGED <<socketsByUser, userBySocket, lastSeen>>
       ELSE /\ out' = broadcastOnlineInfo(socketsByUser, lastSeen, Open)
            /\ socketsByUser' = [socketsByUser EXCEPT ![u] = s]
            /\ userBySocket' = [userBySocket EXCEPT ![s] = u]
            /\ lastSeen' = [lastSeen EXCEPT ![u] = now]
            /\ mail' = IF MapSize(socketsByUser') = 1 THEN <<"Server Active">> ELSE <<>>

\* register that drops the handle's previous userId after it wrote the new binding
RegisterEvictAfterSet(s, u) ==
  /\ conn[s] = "open"
  /\ last' = Event("register", s, u, 0)
  /\ UNCHANGED <<chatVars, messageReactions>>
  /\ UNCHANGED <<conn, typingUsers, now>>
  /\ IF u = NoUser
       THEN /\ out' = <<>>
            /\ mail' = <<>>
            /\ UNCHANGED <<socketsByUser, userBySocket, lastSeen>>
       ELSE /\ socketsByUser' =
                 IF userBySocket[s] = NoUser
                   THEN [socketsByUser EXCEPT ![u] = s]
                   ELSE [[socketsByUser EXCEPT ![u] = s] EXCEPT ![userBySocket[s]] = NoSocket]
            /\ userBySocket' = [userBySocket EXCEPT ![s] = u]
            /\ lastSeen' = [lastSeen EXCEPT ![u] = now]
            /\ out' = broadcastOnlineInfo(socketsByUser', lastSeen', Open)
            /\ mail' = IF MapSize(socketsByUser') = 1 THEN <<"Server Active">> ELSE <<>>

\* socket.on('register', userId)
Register(s, u) ==
  /\ conn[s] = "open"
  /\ last' = Event("register", s, u, 0)
  /\ UNCHANGED <<chatVars, messageReactions>>
  /\ UNCHANGED <<conn, typingUsers, now>>
  /\ IF u = NoUser
       THEN /\ out' = <<>>
            /\ mail' = <<>>
            /\ UNCHANGED <<socketsByUser, userBySocket, lastSeen>>
       ELSE /\ socketsByUser' = [socketsByUser EXCEPT ![u] = s]
            /\ userBySocket' = [userBySocket EXCEPT ![s] = u]
            /\ lastSeen' = [lastSeen EXCEPT ![u] = now]
            /\ out' = broadcastOnlineInfo(socketsByUser', lastSeen', Open)
            /\ mail' = IF MapSize(socketsByUser') = 1 THEN <<"Server Active">> ELSE <<>>

\* socket.on('userConnected', payload): a string payload carries the role only
UserConnected(s, p) ==
  /\ conn[s] = "open"
  /\ last' = Event("userConnected", s, p.userId, p.role)
  /\ UNCHANGED <<chatVars, messageReactions>>
  /\ UNCHANGED <<conn, typingUsers, now>>
  /\ IF p.userId # NoUser
       THEN /\ socketsByUser' = [socketsByUser EXCEPT ![p.userId] = s]
            /\ userBySocket' = [userBySocket EXCEPT ![s] = p.userId]
            /\ lastSeen' = [lastSeen EXCEPT ![p.userId] = now]
       ELSE UNCHANGED <<socketsByUser, userBySocket, lastSeen>>
  /\ out' = << SocketBroadcastEmit(s, "userStatus", StatusText(p.role, "connected")) >>
              \o broadcastOnlineInfo(socketsByUser', lastSeen', Open)
  /\ mail' = IF p.role \in {"f", "m"} THEN <<"New User Connected">> ELSE <<>>

\* typing without the guard on a missing userId
TypingNoGuard(s, u) ==
  /\ conn[s] = "open"
  /\ last' = Event("typing", s, u, 0)
  /\ UNCHANGED <<chatVars, messageReactions>>
  /\ mail' = <<>>
  /\ UNCHANGED <<conn, socketsByUser, userBySocket, lastSeen, now>>
  /\ typingUsers' = SetAdd(typingUsers, u)
  /\ out' = << IoEmit("typing", typingUsers') >>

\* socket.on('typing', userId)
Typing(s, u) ==
  /\ conn[s] = "open"
  /\ last' = Event("typing", s, u, 0)
  /\ UNCHANGED <<chatVars, messageReactions>>
  /\ mail' = <<>>
  /\ UNCHANGED <<conn, socketsByUser, userBySocket, lastSeen, now>>
  /\ IF u = NoUser
       THEN /\ out' = <<>>
            /\ UNCHANGED typingUsers
       ELSE /\ typingUsers' = SetAdd(typingUsers, u)
            /\ out' = << IoEmit("typing", typingUsers') >>

\* socket.on('stopTyping', userId)
StopTyping(s, u) ==
  /\ conn[s] = "open"
  /\ last' = Event("stopTyping", s, u, 0)
  /\ UNCHANGED <<chatVars, messageReactions>>
  /\ mail' = <<>>
  /\ UNCHANGED <<conn, socketsByUser, userBySocket, lastSeen, now>>
  /\ IF u = NoUser
       THEN /\ out' = <<>>
            /\ UNCHANGED typingUsers
       ELSE /\ typingUsers' = SetDelete(typingUsers, u)
            /\ out' = << IoEmit("typing", typingUsers') >>

\* call-user without the else branch, as the other three signal handlers are written
CallUserSilent(s, to, from) ==
  /\ conn[s] = "open"
  /\ last' = Event("call-user", s, to, from)
  /\ UNCHANGED <<chatVars, messageReactions>>
  /\ mail' = <<>>
  /\ LET targetSocketId == Lookup(to) IN
       out' = IF targetSocketId # NoSocket
                THEN << IoToEmit(targetSocketId, "incoming-call", [from |-> from]) >>
                ELSE <<>>
  /\ UNCHANGED <<conn, socketsByUser, userBySocket, typingUsers, lastSeen, now>>

\* socket.on('call-user', { to, from, offer })
CallUser(s, to, from) ==
  /\ conn[s] = "open"
  /\ last' = Event("call-user", s, to, from)
  /\ UNCHANGED <<chatVars, messageReactions>>
  /\ mail' = <<>>
  /\ LET targetSocketId == Lookup(to) IN
       out' = IF targetSocketId # NoSocket
                THEN << IoToEmit(targetSocketId, "incoming-call", [from |-> from]) >>
                ELSE << IoToEmit(s, "user-offline", [to |-> to]) >>
  /\ UNCHANGED <<conn, socketsByUser, userBySocket, typingUsers, lastSeen, now>>

\* socket.on('accept-call', { to, from, answer })
AcceptCall(s, to, from) ==
  /\ conn[s] = "open"
  /\ last' = Event("accept-call", s, to, from)
  /\ UNCHANGED <<chatVars, messageReactions>>
  /\ mail' = <<>>
  /\ LET targetSocketId == Lookup(to) IN
       out' = IF targetSocketId # NoSocket
                THEN << IoToEmit(targetSocketId, "call-accepted", [from |-> from]) >>
                ELSE <<>>
  /\ UNCHANGED <<conn, socketsByUser, userBySocket, typingUsers, lastSeen, now>>

\* socket.on('ice-candidate', { to, candidate }): from is the sender's registered userId or null
IceCandidate(s, to) ==
  /\ conn[s] = "open"
  /\ last' = Event("ice-candidate", s, to, 0)
  /\ UNCHANGED <<chatVars, messageReactions>>
  /\ mail' = <<>>
  /\ LET targetSocketId == Lookup(to)
         fromUser == userBySocket[s]
     IN out' = IF targetSocketId # NoSocket
                 THEN << IoToEmit(targetSocketId, "ice-candidate", [from |-> fromUser]) >>
                 ELSE <<>>
  /\ UNCHANGED <<conn, socketsByUser, userBySocket, typingUsers, lastSeen, now>>

\* socket.on('end-call', { to, from })
EndCall(s, to, from) ==
  /\ conn[s] = "open"
  /\ last' = Event("end-call", s, to, from)
  /\ UNCHANGED <<chatVars, messageReactions>>
  /\ mail' = <<>>
  /\ LET targetSocketId == Lookup(to) IN
       out' = IF targetSocketId # NoSocket
                THEN << IoToEmit(targetSocketId, "call-ended", [from |-> from]) >>
                ELSE <<>>
  /\ UNCHANGED <<conn, socketsByUser, userBySocket, typingUsers, lastSeen, now>>

\* socket.on('userDisconnected', payload): a string payload carries the role only
UserDisconnected(s, p) ==
  /\ conn[s] = "open"
  /\ last' = Event("userDisconnected", s, p.userId, p.role)
  /\ UNCHANGED <<chatVars, messageReactions>>
  /\ mail' = <<>>
  /\ UNCHANGED <<conn, typingUsers, now>>
  /\ IF p.userId # NoUser
       THEN /\ socketsByUser' = [socketsByUser EXCEPT ![p.userId] = NoSocket]
            /\ userBySocket' = [userBySocket EXCEPT ![s] = NoUser]
            /\ lastSeen' = [lastSeen EXCEPT ![p.userId] = now]
       ELSE UNCHANGED <<socketsByUser, userBySocket, lastSeen>>
  /\ out' = << SocketBroadcastEmit(s, "userStatus", StatusText(p.role, "disconnected")) >>
              \o broadcastOnlineInfo(socketsByUser', lastSeen', Open)

\* disconnect that resets the typing set whoever leaves
DisconnectClearTyping(s) ==
  /\ conn[s] = "open"
  /\ conn' = [conn EXCEPT ![s] = "closed"]
  /\ last' = Event("disconnect", s, userBySocket[s], 0)
  /\ UNCHANGED <<chatVars, messageReactions>>
  /\ LET userId == userBySocket[s] IN
       /\ IF userId # NoUser
            THEN /\ socketsByUser' = [socketsByUser EXCEPT ![userId] = NoSocket]
                 /\ userBySocket' = [userBySocket EXCEPT ![s] = NoUser]
                 /\ lastSeen' = [lastSeen EXCEPT ![userId] = now]
            ELSE UNCHANGED <<socketsByUser, userBySocket, lastSeen>>
       /\ typingUsers' = <<>>
       /\ out' = broadcastOnlineInfo(socketsByUser', lastSeen', Open \ {s})
                   \o << Emission("userStatus", Open \ {s}, StatusText("", "disconnected")) >>
       /\ mail' = <<"User Disconnected">>
  /\ UNCHANGED now

\* socket.on('disconnect'): the socket has already left its rooms
Disconnect(s) ==
  /\ conn[s] = "open"
  /\ conn' = [conn EXCEPT ![s] = "closed"]
  /\ last' = Event("disconnect", s, userBySocket[s], 0)
  /\ UNCHANGED <<chatVars, messageReactions>>
  /\ LET userId == userBySocket[s] IN
       /\ IF userId # NoUser
            THEN /\ socketsByUser' = [socketsByUser EXCEPT ![userId] = NoSocket]
                 /\ userBySocket' = [userBySocket EXCEPT ![s] = NoUser]
                 /\ lastSeen' = [lastSeen EXCEPT ![userId] = now]
                 /\ typingUsers' = SetDelete(typingUsers, userId)
            ELSE UNCHANGED <<socketsByUser, userBySocket, lastSeen, typingUsers>>
       /\ out' = broadcastOnlineInfo(socketsByUser', lastSeen', Open \ {s})
                   \o << Emission("userStatus", Open \ {s}, StatusText("", "disconnected")) >>
       /\ mail' = <<"User Disconnected">>
  /\ UNCHANGED now

\* ---- chat relay ----
MsgIds == 1..MaxMsgs
\* the id logged when the handler threw before a Message was built
NoMsg == 0

\* the document `new Message({...})` builds: _id and createdAt are set at construction
NewMessage(id, t) == [id |-> id, createdAt |-> t]

\* the optimistic relay: broadcast the unsaved document, then save it
SendMessageOptimistic(s, wellFormed) ==
  /\ conn[s] = "open"
  /\ last' = Event("sendMessage", s, IF wellFormed THEN nextId ELSE NoMsg, 0)
  /\ mail' = <<>>
  /\ IF wellFormed
       THEN /\ nextId <= MaxMsgs
            /\ pending' = pending \cup {[sock |-> s, message |-> NewMessage(nextId, now)]}
            /\ nextId' = nextId + 1
            /\ sentBy' = [sentBy EXCEPT ![nextId] = s]
            /\ out' = << IoEmit("message", NewMessage(nextId, now)) >>
            /\ UNCHANGED errlog
       ELSE /\ errlog' = errlog \cup {NoMsg}
            /\ out' = <<>>
            /\ UNCHANGED <<pending, nextId, sentBy>>
  /\ UNCHANGED <<conn, regVars, now, store, pendingDel>>

\* socket.on('sendMessage', msg) up to `await message.save()`; a msg without
\* fields (undefined) throws inside the try and is logged by the catch
SendMessage(s, wellFormed) ==
  /\ conn[s] = "open"
  /\ last' = Event("sendMessage", s, IF wellFormed THEN nextId ELSE NoMsg, 0)
  /\ out' = <<>>
  /\ mail' = <<>>
  /\ IF wellFormed
       THEN /\ nextId <= MaxMsgs
            /\ pending' = pending \cup {[sock |-> s, message |-> NewMessage(nextId, now)]}
            /\ nextId' = nextId + 1
            /\ sentBy' = [sentBy EXCEPT ![nextId] = s]
            /\ UNCHANGED errlog
       ELSE /\ errlog' = errlog \cup {NoMsg}
            /\ UNCHANGED <<pending, nextId, sentBy>>
  /\ UNCHANGED <<conn, regVars, now, store, pendingDel>>

\* the save resolves: the handler resumes and broadcasts the saved document
SaveOk(p) ==
  /\ p \in pending
  /\ pending' = pending \ {p}
  /\ store' = store \cup {p.message}
  /\ out' = << IoEmit("message", p.message) >>
  /\ mail' = <<>>
  /\ last' = Event("save-ok", p.sock, p.message.id, 0)
  /\ UNCHANGED <<conn, regVars, now, pendingDel, errlog, nextId, sentBy>>

\* the save rejects: the catch logs it
SaveFail(p) ==
  /\ p \in pending
  /\ pending' = pending \ {p}
  /\ errlog' = errlog \cup {p.message.id}
  /\ out' = <<>>
  /\ mail' = <<>>
  /\ last' = Event("save-fail", p.sock, p.message.id, 0)
  /\ UNCHANGED <<conn, regVars, now, store, pendingDel, nextId, sentBy>>

\* app.delete('/messages/:id') up to `await Message.findByIdAndDelete(id)`
DeleteRequest(id) ==
  /\ id \notin pendingDel
  /\ pendingDel' = pendingDel \cup {id}
  /\ out' = <<>>
  /\ mail' = <<>>
  /\ last' = Event("delete-request", NoSocket, id, 0)
  /\ UNCHANGED <<conn, regVars, now, store, pending, errlog, nextId, sentBy>>

\* a delete that reports an id the store does not hold instead of broadcasting it
DeleteDoneNotFoundSilent(id) ==
  /\ id \in pendingDel
  /\ pendingDel' = pendingDel \ {id}
  /\ store' = {m \in store : m.id # id}
  /\ out' = IF \E m \in store : m.id = id
              THEN << IoEmit("deleteMessage", id) >>
              ELSE <<>>
  /\ mail' = <<>>
  /\ last' = Event("delete-done", NoSocket, id, 0)
  /\ UNCHANGED <<conn, regVars, now, pending, errlog, nextId, sentBy>>

\* findByIdAndDelete resolves (with the document or null): broadcast the id
DeleteDone(id) ==
  /\ id \in pendingDel
  /\ pendingDel' = pendingDel \ {id}
  /\ store' = {m \in store : m.id # id}
  /\ out' = << IoEmit("deleteMessage", id) >>
  /\ mail' = <<>>
  /\ last' = Event("delete-done", NoSocket, id, 0)
  /\ UNCHANGED <<conn, regVars, now, pending, errlog, nextId, sentBy>>

\* Message.find().sort({ createdAt: 1 }): the documents of the store by
\* ascending createdAt, documents of equal createdAt in any order
SortedListings(docs) ==
  {q \in [1..Cardinality(docs) -> docs] :
     /\ \A i \in DOMAIN q, j \in DOMAIN q : i < j => q[i].createdAt <= q[j].createdAt
     /\ \A i \in DOMAIN q, j \in DOMAIN q : i # j => q[i] # q[j]}

\* app.get('/messages'): the listing goes to the HTTP caller, to no socket
GetMessages ==
  /\ \E q \in SortedListings(store) : out' = << Emission("res.json", {}, q) >>
  /\ mail' = <<>>
  /\ last' = Event("get-messages", NoSocket, 0, 0)
  /\ UNCHANGED <<conn, regVars, now, chatVars>>

\* ---- reactions and read receipts ----
Emojis == {"thumbsup", "heart"}

\* a reaction handler that skips an emoji the message already has
MessageReactionDedup(s, messageId, emoji) ==
  /\ conn[s] = "open"
  /\ Len(messageReactions[messageId]) < MaxReactions
  /\ messageReactions' =
       IF emoji \in SeqRange(messageReactions[messageId])
         THEN messageReactions
         ELSE [messageReactions EXCEPT ![messageId] = Append(@, emoji)]
  /\ out' = << IoEmit("messageReaction", [messageId |-> messageId, emoji |-> emoji]) >>
  /\ mail' = <<>>
  /\ last' = Event("messageReaction", s, messageId, emoji)
  /\ UNCHANGED <<conn, socketsByUser, userBySocket, typingUsers, lastSeen, now, chatVars>>

\* socket.on('messageReaction', (messageId, emoji)); a messageId without an
\* entry has the empty sequence
MessageReaction(s, messageId, emoji) ==
  /\ conn[s] = "open"
  /\ Len(messageReactions[messageId]) < MaxReactions
  /\ messageReactions' = [messageReactions EXCEPT ![messageId] = Append(@, emoji)]
  /\ out' = << IoEmit("messageReaction", [messageId |-> messageId, emoji |-> emoji]) >>
  /\ mail' = <<>>
  /\ last' = Event("messageReaction", s, messageId, emoji)
  /\ UNCHANGED <<conn, socketsByUser, userBySocket, typingUsers, lastSeen, now, chatVars>>

\* socket.on('messageRead', (messageId, userId))
MessageRead(s, messageId, userId) ==
  /\ conn[s] = "open"
  /\ out' = << IoEmit("readMessage", [messageId |-> messageId, userId |-> userId]),
               IoEmit("seenMessage", [messageId |-> messageId, userId |-> userId]) >>
  /\ mail' = <<>>
  /\ last' = Event("messageRead", s, messageId, userId)
  /\ UNCHANGED <<conn, regVars, now, chatVars>>

\* the handlers that keep the registry: every specification below runs them
Lifecycle ==
  \/ \E s \in Sockets : Connect(s)
  \/ \E s \in Sockets, u \in UserIds : Register(s, u)
  \/ \E s \in Sockets, p \in Payloads : UserConnected(s, p)
  \/ \E s \in Sockets, p \in Payloads : UserDisconnected(s, p)
  \/ \E s \in Sockets : Disconnect(s)

\* registry, presence and typing: the handlers that write the shared state
Next ==
  \/ Lifecycle
  \/ \E s \in Sockets, u \in UserIds : Typing(s, u)
  \/ \E s \in Sockets, u \in UserIds : StopTyping(s, u)

Spec == Init /\ [][Next]_vars

\* presence over the registry with a running clock: lastSeen is written by the
\* lifecycle handlers only, and typing never reads it
NextPresence ==
  \/ Lifecycle
  \/ Tick

SpecPresence == Init /\ [][NextPresence]_vars

\* the call signalling router over the registry: the four signal handlers only
\* read socketsByUser and userBySocket, which typing and the clock never write
NextSignal ==
  \/ Lifecycle
  \/ \E s \in Sockets, to \in UserIds, from \in UserIds : CallUser(s, to, from)
  \/ \E s \in Sockets, to \in UserIds, from \in UserIds : AcceptCall(s, to, from)
  \/ \E s \in Sockets, to \in UserIds : IceCandidate(s, to)
  \/ \E s \in Sockets, to \in UserIds, from \in UserIds : EndCall(s, to, from)

SpecSignal == Init /\ [][NextSignal]_vars

\* the chat relay: its handlers touch the store and reach the connected
\* sockets, and read nothing of the registry; createdAt is the only use of
\* the clock, which stands still here
NextChat ==
  \/ \E s \in Sockets : Connect(s)
  \/ \E s \in Sockets : Disconnect(s)
  \/ \E s \in Sockets, wellFormed \in BOOLEAN : SendMessage(s, wellFormed)
  \/ \E p \in pending : SaveOk(p)
  \/ \E p \in pending : SaveFail(p)
  \/ \E id \in MsgIds : DeleteRequest(id)
  \/ \E id \in MsgIds : DeleteDone(id)
  \/ GetMessages

SpecChat == Init /\ [][NextChat]_vars

\* the reaction log and the read receipts: their handlers read nothing of
\* the registry or the store
NextReact ==
  \/ \E s \in Sockets : Connect(s)
  \/ \E s \in Sockets : Disconnect(s)
  \/ \E s \in Sockets, m \in MsgIds, e \in Emojis : MessageReaction(s, m, e)
  \/ \E s \in Sockets, m \in MsgIds, u \in UserIds : MessageRead(s, m, u)

SpecReact == Init /\ [][NextReact]_vars

\* the handlers that take a bare userId, next to the reaction log they must
\* leave alone
NextFrame ==
  \/ \E s \in Sockets : Connect(s)
  \/ \E s \in Sockets, u \in UserIds : Register(s, u)
  \/ \E s \in Sockets, u \in UserIds : Typing(s, u)
  \/ \E s \in Sockets, u \in UserIds : StopTyping(s, u)
  \/ \E s \in Sockets, m \in MsgIds, e \in Emojis : MessageReaction(s, m, e)
  \/ \E s \in Sockets : Disconnect(s)

SpecFrame == Init /\ [][NextFrame]_vars

\* ---- properties ----
SignalKinds == {"call-user", "accept-call", "ice-candidate", "end-call"}
RegisterKinds == {"register", "userConnected"}
Bound(u) == socketsByUser[u] # NoSocket
OnlineUsers == {u \in Users : Bound(u)}
\* the emissions of the handler that just ran which reached socket s
DeliveredTo(s) == {i \in 1..Len(out) : s \in out[i].rcpt}

\* C1: every userID bound in the registry is bound to a connection that is
\* still open: after the disconnect of the connection that registered U,
\* lookup(U) is absent, whatever register, userConnected, userDisconnected
\* events came before.
C1_BoundOnlyToOpen ==
  \A u \in Users : Bound(u) => conn[socketsByUser[u]] = "open"

\* C2: once connection C2 has registered U, after C1 had, lookup(U) is C2
\* only, and a signal addressed to U while both are open reaches C2 and
\* nothing reaches C1.
C2_LastRegistrationWins ==
  /\ (last.kind \in RegisterKinds /\ last.arg # NoUser)
       => socketsByUser[last.arg] = last.sock
  /\ \A c1 \in Sockets, c2 \in Sockets :
       ( /\ last.kind \in SignalKinds
         /\ c1 # c2
         /\ conn[c1] = "open" /\ conn[c2] = "open"
         /\ Lookup(last.arg) = c2 )
       => /\ DeliveredTo(c2) = {1}
          /\ DeliveredTo(c1) = {}
          /\ Len(out) = 1

C2_Witness ==
  /\ last.kind = "accept-call"
  /\ last.arg \in Users
  /\ conn = [s \in Sockets |-> "open"]
  /\ userBySocket[1] = last.arg
  /\ userBySocket[2] = last.arg
  /\ socketsByUser[last.arg] = 2
  /\ last.sock = 1
  /\ DeliveredTo(2) = {1}

\* C3: register overwrites any prior userID of the same connection, so at
\* most one userID maps to any connection handle and the forward map is the
\* inverse of the reverse map.
C3_OneUserPerHandle ==
  /\ \A u1 \in Users, u2 \in Users :
       (Bound(u1) /\ socketsByUser[u1] = socketsByUser[u2]) => u1 = u2
  /\ \A u \in Users : Bound(u) => userBySocket[socketsByUser[u]] = u

\* C4: the count carried by every updateOnlineUsers broadcast is the number
\* of distinct userIDs bound in the registry when it is emitted, never
\* negative, and registering an already bound userID again does not raise it.
C4_OnlineCount ==
  [][ \A i \in 1..Len(out') :
        out'[i].ev = "updateOnlineUsers" =>
          /\ out'[i].payload = Cardinality({u \in Users : socketsByUser'[u] # NoSocket})
          /\ out'[i].payload >= 0
          /\ (last'.kind \in RegisterKinds /\ last'.arg # NoUser /\ Bound(last'.arg))
               => out'[i].payload = Cardinality(OnlineUsers) ]_vars

C4_Witness ==
  /\ last.kind = "register"
  /\ last.sock = 2
  /\ userBySocket[1] = last.arg
  /\ userBySocket[2] = last.arg
  /\ Len(out) = 2
  /\ out[1].ev = "updateOnlineUsers"
  /\ out[1].payload = 1
  /\ OnlineUsers = {last.arg}

\* C5: a call offer to a userID that is not bound yields exactly one
\* user-offline notice carrying that userID, delivered to the sending
\* connection and to no other; no incoming-call is emitted.
C5_OfflineNotice ==
  (last.kind = "call-user" /\ Lookup(last.arg) = NoSocket)
    => /\ Len(out) = 1
       /\ out[1].ev = "user-offline"
       /\ out[1].rcpt = {last.sock}
       /\ out[1].payload = [to |-> last.arg]

C5_Witness ==
  /\ last.kind = "call-user"
  /\ last.arg \in Users
  /\ last.arg2 \in Users
  /\ ~Bound(last.arg)
  /\ Bound(last.arg2)
  /\ socketsByUser[last.arg2] # last.sock
  /\ conn[socketsByUser[last.arg2]] = "open"
  /\ out[1].ev = "user-offline"
  /\ out[1].rcpt = {last.sock}

\* C6: a call offer to a userID registered to connection C yields exactly
\* one incoming-call delivered to C and nothing to any other connection.
C6_OneIncomingCall ==
  (last.kind = "call-user" /\ Lookup(last.arg) # NoSocket)
    => /\ Len(out) = 1
       /\ out[1].ev = "incoming-call"
       /\ out[1].rcpt = {Lookup(last.arg)}

\* C7: for each of the four signal kinds, when the target userID is not
\* bound the sending connection, and only it, receives an unreachable
\* notice carrying the target.
C7_UniformOfflineCheck ==
  (last.kind \in SignalKinds /\ last.arg \in Users /\ ~Bound(last.arg))
    => /\ Len(out) = 1
       /\ out[1].ev = "user-offline"
       /\ out[1].rcpt = {last.sock}
       /\ out[1].payload = [to |-> last.arg]

\* C8: every mutation of the TypingSet, the removal on disconnect included,
\* is followed by a broadcast of the full current TypingSet to every
\* connection that remains.
C8_TypingBroadcastOnMutation ==
  [][ (typingUsers' # typingUsers /\ \E s \in Sockets : conn'[s] = "open") =>
        \E i \in 1..Len(out') :
          /\ out'[i].ev = "typing"
          /\ out'[i].payload = typingUsers'
          /\ out'[i].rcpt = {s \in Sockets : conn'[s] = "open"} ]_vars

\* C9: after the transport disconnect of a connection, no userID that this
\* connection had registered is in the TypingSet.
C9_DisconnectClearsTyping ==
  [][ \A s \in Sockets, u \in Users :
        (conn[s] = "open" /\ conn'[s] = "closed" /\ socketsByUser[u] = s)
          => u \notin SeqRange(typingUsers') ]_vars

\* C10: a 'message' broadcast is emitted only by the completion of a
\* successful save and carries the document the store holds; a message whose
\* save failed is never broadcast (a failed save emits nothing), and the
\* failure leaves the relay serving.
C10_BroadcastAfterSave ==
  /\ \A i \in 1..Len(out) :
       out[i].ev = "message" =>
         /\ last.kind = "save-ok"
         /\ out[i].payload.id = last.arg
         /\ out[i].payload \in store
         /\ out[i].payload.id \notin errlog
         /\ \A p \in pending : p.message.id # out[i].payload.id
         /\ out[i].rcpt = Open
  /\ last.kind = "save-fail" => (out = <<>> /\ last.arg \in errlog)
  /\ last.kind = "save-ok" => (Len(out) = 1 /\ out[1].ev = "message")

C10_Witness ==
  /\ last.kind = "save-ok"
  /\ last.arg = 2
  /\ errlog = {1}
  /\ Len(out) = 1
  /\ out[1].ev = "message"
  /\ out[1].payload.id = 2
  /\ out[1].rcpt = Sockets

\* C11: when the save of a chat message sent on connection S fails, S and
\* no other connection receives a failure signal for that send.
C11_FailureReportedToSender ==
  (last.kind = "save-fail" /\ conn[last.sock] = "open")
    => /\ \E i \in 1..Len(out) : out[i].rcpt = {last.sock}
       /\ \A i \in 1..Len(out) : out[i].rcpt \subseteq {last.sock}

\* C12: when one connection sends m1 and then m2 and both are saved, the
\* 'message' broadcast of m1 comes before that of m2: no message is
\* broadcast after a later message of the same connection was.
C12_PerConnectionOrder ==
  last.kind = "save-ok"
    => \A m \in store : ~(sentBy[m.id] = last.sock /\ m.id > last.arg)

\* C13: a saved message is returned by the listing until it is deleted; the
\* completion of a delete leaves no document of that id in the store and
\* emits exactly one deleteMessage carrying the id to every connection,
\* whether or not the store still held it; deleteMessage is emitted by
\* nothing else.
C13_DeleteRoundTrip ==
  [][ /\ last'.kind = "get-messages" =>
           /\ Len(out') = 1
           /\ SeqRange(out'[1].payload) = store
           /\ Len(out'[1].payload) = Cardinality(store)
      /\ last'.kind = "delete-done" =>
           /\ last'.arg \in pendingDel
           /\ Len(out') = 1
           /\ out'[1].ev = "deleteMessage"
           /\ out'[1].payload = last'.arg
           /\ out'[1].rcpt = Open
           /\ \A m \in store' : m.id # last'.arg
      /\ \A i \in 1..Len(out') :
           out'[i].ev = "deleteMessage" => last'.kind = "delete-done"
      /\ \A m \in store :
           m \notin store' => (last'.kind = "delete-done" /\ last'.arg = m.id) ]_vars

C13_Witness ==
  /\ last.kind = "delete-done"
  /\ last.arg = 1
  /\ sentBy[1] # NoSocket
  /\ 1 \notin errlog
  /\ \A p \in pending : p.message.id # 1
  /\ store = {}
  /\ Open = Sockets
  /\ Len(out) = 1
  /\ out[1].rcpt = Sockets

\* C14: every updateOnlineUsers emission is directly followed by a lastSeen
\* emission to the same connections, in the same handler run, and both
\* carry the state the handler's mutation produced: the count of bound
\* userIDs and the last-seen map with the event's timestamp.
C14_PresenceSnapshot ==
  /\ \A i \in 1..Len(out) :
       out[i].ev = "updateOnlineUsers" =>
         /\ i < Len(out)
         /\ out[i + 1].ev = "lastSeen"
         /\ out[i + 1].rcpt = out[i].rcpt
         /\ out[i].payload = Cardinality(OnlineUsers)
         /\ out[i + 1].payload = lastSeen
  /\ \A i \in 1..Len(out) :
       out[i].ev = "lastSeen" => (i > 1 /\ out[i - 1].ev = "updateOnlineUsers")
  /\ (last.kind \in RegisterKinds \cup {"userDisconnected", "disconnect"} /\ last.arg # NoUser)
       => /\ lastSeen[last.arg] = now
          /\ \E i \in 1..Len(out) : out[i].ev = "updateOnlineUsers"

C14_Witness ==
  /\ last.kind = "userDisconnected"
  /\ last.arg \in Users
  /\ now = 1
  /\ Len(out) = 3
  /\ out[2].ev = "updateOnlineUsers"
  /\ out[2].payload = 1
  /\ out[2].rcpt = Sockets
  /\ out[3].ev = "lastSeen"
  /\ out[3].payload[last.arg] = 1
  /\ \E u \in Users : out[3].payload[u] = 0

\* C15: the disconnect of a connection that holds no userID leaves both
\* registry maps, the last-seen map and the TypingSet unchanged; it emits the
\* presence broadcast, with the online count as it was before, and the
\* generic user-disconnected status to the remaining connections, and
\* nothing else.
C15_UnregisteredDisconnect ==
  [][ \A s \in Sockets :
        (conn[s] = "open" /\ conn'[s] = "closed" /\ userBySocket[s] = NoUser) =>
          /\ socketsByUser' = socketsByUser
          /\ userBySocket' = userBySocket
          /\ lastSeen' = lastSeen
          /\ typingUsers' = typingUsers
          /\ Len(out') = 3
          /\ out'[1].ev = "updateOnlineUsers"
          /\ out'[1].payload = Cardinality(OnlineUsers)
          /\ out'[2].ev = "lastSeen"
          /\ out'[2].payload = lastSeen
          /\ out'[3].ev = "userStatus"
          /\ out'[3].payload = StatusText("", "disconnected")
          /\ \A i \in 1..3 : out'[i].rcpt = Open \ {s} ]_vars

C15_Witness ==
  /\ last.kind = "disconnect"
  /\ last.sock = 2
  /\ last.arg = NoUser
  /\ conn[1] = "open"
  /\ userBySocket[1] \in Users
  /\ socketsByUser[userBySocket[1]] = 1
  /\ typingUsers = << userBySocket[1] >>
  /\ \A u \in Users : u # userBySocket[1] => lastSeen[u] = NoTime
  /\ Len(out) = 3
  /\ out[1].payload = 1
  /\ out[1].rcpt = {1}

\* C16: each messageReaction(M, e) appends exactly e to the end of the
\* sequence of M and emits exactly one messageReaction carrying {M, e} to
\* every connection; identical calls accumulate, and no step removes or
\* reorders entries of the reaction log.
C16_ReactionsAppendOnly ==
  [][ /\ last'.kind = "messageReaction" =>
           /\ messageReactions' =
                [messageReactions EXCEPT ![last'.arg] = Append(@, last'.arg2)]
           /\ Len(out') = 1
           /\ out'[1].ev = "messageReaction"
           /\ out'[1].payload = [messageId |-> last'.arg, emoji |-> last'.arg2]
           /\ out'[1].rcpt = Open
      /\ \A m \in MsgIds :
           /\ Len(messageReactions[m]) <= Len(messageReactions'[m])
           /\ SubSeq(messageReactions'[m], 1, Len(messageReactions[m])) = messageReactions[m]
      /\ \A i \in 1..Len(out') :
           out'[i].ev = "messageReaction" => last'.kind = "messageReaction" ]_vars

C16_Witness ==
  /\ last.kind = "messageReaction"
  /\ last.arg = 1
  /\ last.arg2 = "thumbsup"
  /\ messageReactions[1] = <<"thumbsup", "thumbsup">>
  /\ Open = Sockets
  /\ Len(out) = 1
  /\ out[1].rcpt = Sockets

\* C17: register(U) on connection C in a state where U is already bound to
\* C in both maps and has a last-seen entry (the state a first register(U)
\* on C leaves) changes neither map, announces the same online count and
\* leaves the set of userIds with a last-seen entry as it was.
C17_RegisterIdempotent ==
  [][ ( /\ last'.kind = "register"
        /\ last'.arg # NoUser
        /\ socketsByUser[last'.arg] = last'.sock
        /\ userBySocket[last'.sock] = last'.arg
        /\ lastSeen[last'.arg] # NoTime )
      => /\ socketsByUser' = socketsByUser
         /\ userBySocket' = userBySocket
         /\ Len(out') = 2
         /\ out'[1].ev = "updateOnlineUsers"
         /\ out'[1].payload = MapSize(socketsByUser)
         /\ {u \in Users : lastSeen'[u] # NoTime} = {u \in Users : lastSeen[u] # NoTime} ]_vars

C17_Witness ==
  /\ last.kind = "register"
  /\ last.sock = 1
  /\ last.arg = 1
  /\ socketsByUser[1] = 1
  /\ userBySocket[1] = 1
  /\ now = MaxTime
  /\ lastSeen[1] = MaxTime
  /\ socketsByUser[2] = 2
  /\ Len(out) = 2
  /\ out[1].payload = 2

\* C18: a register, typing or stopTyping message without a userId changes
\* neither map of the registry, nor the last-seen map, the typing set or the
\* reaction log, and emits nothing.
C18_MalformedFrame ==
  [][ (last'.kind \in {"register", "typing", "stopTyping"} /\ last'.arg = NoUser)
      => /\ UNCHANGED <<socketsByUser, userBySocket, lastSeen, typingUsers, messageReactions>>
         /\ out' = <<>> ]_vars

C18_Witness ==
  /\ last.kind = "typing"
  /\ last.arg = NoUser
  /\ out = <<>>
  /\ Open = Sockets
  /\ typingUsers # <<>>
  /\ Bound(1)
  /\ lastSeen[1] # NoTime
  /\ messageReactions[1] # <<>>

\* C19: when connection C1 disconnects while the userID it registered is
\* bound to another open connection C2 (a later register on C2), the userID
\* stays bound to C2 and is still counted in the announced online count.
C19_ReconnectKeepsNewSession ==
  [][ \A c1 \in Sockets, c2 \in Sockets, u \in Users :
        ( /\ c1 # c2
          /\ conn[c1] = "open" /\ conn'[c1] = "closed"
          /\ conn[c2] = "open"
          /\ userBySocket[c1] = u
          /\ userBySocket[c2] = u
          /\ socketsByUser[u] = c2 )
        => /\ socketsByUser'[u] = c2
           /\ out'[1].ev = "updateOnlineUsers"
           /\ out'[1].payload = MapSize(socketsByUser) ]_vars

\* C20: a userDisconnected message on connection C never unbinds a userID
\* that is bound to another, still open connection, and when it clears the
\* reverse entry of C, the userID C was bound to is no longer bound to C.
C20_UserDisconnectedOwnBinding ==
  [][ last'.kind = "userDisconnected" =>
        /\ \A u \in Users :
             ( /\ Bound(u)
               /\ socketsByUser[u] # last'.sock
               /\ conn[socketsByUser[u]] = "open" )
             => socketsByUser'[u] = socketsByUser[u]
        /\ (userBySocket[last'.sock] # NoUser /\ userBySocket'[last'.sock] = NoUser)
             => socketsByUser'[userBySocket[last'.sock]] # last'.sock ]_vars

====
